---- MODULE Spec2Model ----
(***************************************************************************)
(* Model of src/intensityWeighting/process_mgf_mzid.py.                    *)
(*                                                                         *)
(* Encoding of Python values                                               *)
(*   str    a sequence of tokens (Text).  A token is a run of characters   *)
(*          that the program's string operations never cut: the literals   *)
(*          it tests for ("BEGIN IONS", "TITLE=", "scan=", "&quot;", ...)  *)
(*          and the separators it splits on (" ", "\t", "=", the double    *)
(*          quote) are tokens of their own, so the concatenation of the    *)
(*          tokens of a Text is the Python string.  The character "="      *)
(*          occurs only as the last character of a token.                  *)
(*   float  an IEEE-754 double [k, s, m, e]: of kind "fin" it stands for   *)
(*          (-1)^s * m * 2^e, m odd and below 2^53, held as limbs of 15    *)
(*          bits, least significant first (zero: m = <<>>, e = 0); of      *)
(*          kind "inf" it is the infinity of sign s, of kind "nan" not a   *)
(*          number.  Dec(n, k) is float() of the decimal text of           *)
(*          n / 10^k; +, -, *, / 1e6 and <= round, overflow, underflow     *)
(*          and compare as the hardware does.                              *)
(*   value  a tagged tuple: PyNone, PyInt(i), PyFloat(d), PyStr(t).        *)
(*   dict   a function from its keys (Text) to values.                     *)
(***************************************************************************)
EXTENDS Integers, Sequences, FiniteSets, TLC

VARIABLES
    pc,                    \* position of the running function
    nread,                 \* number of lines consumed so far
    input,                 \* the arguments a function under test was called with
    result,                \* the value a function under test returned
    targets,               \* the target list (parse_mgf, export_to_csv)
    inside_ion_block, scan_number, rt, precursor_mz, intensity,
    mz_values, summed_ms2_intensity, line, precursor_data,   \* parse_mgf locals
    block_emits,           \* history: records appended since the last BEGIN IONS
    mgf_data,              \* the list parse_mgf returned (main, line 282)
    mzid_data,             \* the dict of parse_mzid_with_scans
    merged_data,           \* the list merge_data returned (main, line 284)
    out_file               \* the destination file of export_to_csv

mgfLocals == <<inside_ion_block, scan_number, rt, precursor_mz, intensity,
               mz_values, summed_ms2_intensity, line, precursor_data>>
otherVars == <<input, result, mzid_data, merged_data, out_file>>
vars == <<pc, nread, targets, mgfLocals, block_emits, mgf_data, otherVars>>

\* ---------------------------------------------------------------- bounds
MaxLines == 8

\* ------------------------------------------------------- Python values
PyNone == <<"None">>
PyInt(i) == <<"int", i>>
PyFloat(d) == <<"float", d>>
PyStr(t) == <<"str", t>>

\* Python truth value of a str-or-None (line 133: `if scan_number and ...`)
Truthy(v) == v # PyNone /\ v # PyStr(<<>>)

\* ------------------------------------------------- IEEE-754 binary64
\* Python's float is a C double.  A finite double is [k |-> "fin", s, m, e]:
\* its value is (-1)^s * m * 2^e, with m an odd natural number of at most
\* MantBits bits held as a sequence of limbs (least significant first) and
\* e >= MinExp; zero has m = <<>> and e = 0.  Every operation computes the
\* exact result and rounds it to the nearest double, ties to even: a result
\* below 2^-1022 in magnitude is rounded at 2^MinExp (a subnormal, or
\* zero), one that rounds to 2^MaxBits or more is an infinity.
MantBits == 53
\* the least bit of a double is 2^-1074
SubBits == 1074
MinExp == 0 - SubBits
\* every finite double is below 2^1024 in magnitude
MaxBits == 1024
LimbBits == 15
Base == 2 ^ LimbBits

MinOf(a, b) == IF a <= b THEN a ELSE b

RECURSIVE BTrim(_)
BTrim(a) ==
    IF a = <<>> THEN a
    ELSE IF a[Len(a)] = 0 THEN BTrim(SubSeq(a, 1, Len(a) - 1))
    ELSE a

RECURSIVE BFromInt(_)
BFromInt(n) == IF n = 0 THEN <<>> ELSE <<n % Base>> \o BFromInt(n \div Base)

Limb(a) == IF a = <<>> THEN 0 ELSE a[1]
Rest(a) == IF a = <<>> THEN a ELSE Tail(a)

RECURSIVE BAddC(_, _, _)
BAddC(a, b, c) ==
    IF a = <<>> /\ b = <<>> THEN (IF c = 0 THEN <<>> ELSE <<c>>)
    ELSE LET x == Limb(a) + Limb(b) + c
         IN <<x % Base>> \o BAddC(Rest(a), Rest(b), x \div Base)

BAdd(a, b) == BAddC(a, b, 0)

\* a - b - c for a >= b + c, before trimming
RECURSIVE BSubC(_, _, _)
BSubC(a, b, c) ==
    IF a = <<>> THEN <<>>
    ELSE LET x == a[1] - Limb(b) - c
         IN IF x < 0 THEN <<x + Base>> \o BSubC(Tail(a), Rest(b), 1)
            ELSE <<x>> \o BSubC(Tail(a), Rest(b), 0)

BSub(a, b) == BTrim(BSubC(a, b, 0))

\* -1, 0, 1 as a < b, a = b, a > b
RECURSIVE BCmp(_, _)
BCmp(a, b) ==
    IF Len(a) # Len(b) THEN (IF Len(a) < Len(b) THEN 0 - 1 ELSE 1)
    ELSE IF a = <<>> THEN 0
    ELSE IF a[Len(a)] # b[Len(b)] THEN (IF a[Len(a)] < b[Len(b)] THEN 0 - 1 ELSE 1)
    ELSE BCmp(SubSeq(a, 1, Len(a) - 1), SubSeq(b, 1, Len(b) - 1))

\* a * k + c for 0 <= k, c < Base, before trimming
RECURSIVE BMulSmall(_, _, _)
BMulSmall(a, k, c) ==
    IF a = <<>> THEN (IF c = 0 THEN <<>> ELSE <<c>>)
    ELSE LET x == a[1] * k + c
         IN <<x % Base>> \o BMulSmall(Tail(a), k, x \div Base)

\* a * b for a # <<>>, before trimming
RECURSIVE BMulR(_, _)
BMulR(a, b) ==
    IF b = <<>> THEN <<>>
    ELSE BAdd(BMulSmall(a, b[1], 0), <<0>> \o BMulR(a, Tail(b)))

BMul(a, b) == IF a = <<>> THEN a ELSE BTrim(BMulR(a, b))

\* long division of r * Base^Len(a) + a by k, 0 <= r < k < Base, by halves
\* of a: the Len(a) limbs of the quotient, most significant first, and the
\* remainder
RECURSIVE BDivRem(_, _, _)
DivJoin(hi, lo) == [q |-> hi.q \o lo.q, r |-> lo.r]
DivLow(a, k, h, hi) == DivJoin(hi, BDivRem(SubSeq(a, 1, h), k, hi.r))
DivHalves(a, k, r, h) == DivLow(a, k, h, BDivRem(SubSeq(a, h + 1, Len(a)), k, r))
BDivRem(a, k, r) ==
    IF a = <<>> THEN [q |-> <<>>, r |-> r]
    ELSE IF Len(a) = 1
    THEN [q |-> <<(r * Base + a[1]) \div k>>, r |-> (r * Base + a[1]) % k]
    ELSE DivHalves(a, k, r, Len(a) \div 2)

Reverse(a) == [i \in 1..Len(a) |-> a[Len(a) + 1 - i]]

TrimQ(d) == [q |-> BTrim(Reverse(d.q)), r |-> d.r]

\* quotient and remainder of a by k, 0 < k < Base
BDivSmall(a, k) == TrimQ(BDivRem(a, k, 0))

RECURSIVE Bits(_)
Bits(n) == IF n = 0 THEN 0 ELSE 1 + Bits(n \div 2)

BitLen(a) == IF a = <<>> THEN 0 ELSE LimbBits * (Len(a) - 1) + Bits(a[Len(a)])

BIsOdd(a) == a # <<>> /\ a[1] % 2 = 1

Zeros(k) == [i \in 1..k |-> 0]

\* a * 2^k
BShl(a, k) ==
    IF a = <<>> \/ k = 0 THEN a
    ELSE IF k % LimbBits = 0 THEN Zeros(k \div LimbBits) \o a
    ELSE Zeros(k \div LimbBits) \o BMulSmall(a, 2 ^ (k % LimbBits), 0)

ShrBits(d, lost) == [q |-> d.q, sticky |-> d.r # 0 \/ lost]

ShrLimbs(a, w, r) ==
    ShrBits(BDivSmall(SubSeq(a, w + 1, Len(a)), 2 ^ r), SubSeq(a, 1, w) # Zeros(w))

\* a \div 2^k, and whether a nonzero bit was shifted out
BShr(a, k) == ShrLimbs(a, MinOf(k \div LimbBits, Len(a)), k % LimbBits)

Fin(s, m, e) == [k |-> "fin", s |-> s, m |-> m, e |-> e]
Zero(s) == Fin(s, <<>>, 0)
\* float('inf'), float('-inf')
Inf(s) == [k |-> "inf", s |-> s, m |-> <<>>, e |-> 0]
\* float('nan')
NaN == [k |-> "nan", s |-> 0, m |-> <<>>, e |-> 0]

RECURSIVE TrailingZeros(_)
TrailingZeros(n) == IF n % 2 = 1 THEN 0 ELSE 1 + TrailingZeros(n \div 2)

ReduceBits(s, n, e, tz) ==
    IF tz = 0 THEN Fin(s, n, e)
    ELSE Fin(s, BDivSmall(n, 2 ^ tz).q, e + tz)

\* (-1)^s * n * 2^e for n > 0 with its mantissa made odd
RECURSIVE Reduce(_, _, _)
Reduce(s, n, e) ==
    IF n[1] = 0 THEN Reduce(s, Tail(n), e + LimbBits)
    ELSE ReduceBits(s, n, e, TrailingZeros(n[1]))

\* the double (-1)^s * n * 2^e, n of at most MantBits bits or 2^MantBits,
\* e >= MinExp: zero keeps its sign, 2^MaxBits and above is an infinity
InRange(s, n, e) ==
    IF n = <<>> THEN Zero(s)
    ELSE IF BitLen(n) + e > MaxBits THEN Inf(s)
    ELSE Reduce(s, n, e)

\* m0 holds the bits of the number that the double keeps, guard the next
\* bit, sticky whether any later bit is set: round half to even
RoundUp(s, m0, e, guard, sticky) ==
    InRange(s, IF guard /\ (sticky \/ BIsOdd(m0)) THEN BAdd(m0, <<1>>) ELSE m0, e)

\* g is the number shifted right to the kept bits and one more
RoundGuard(s, g, e, sticky) ==
    RoundUp(s, BShr(g.q, 1).q, e, BIsOdd(g.q), g.sticky \/ sticky)

\* d is the number of low bits of n that the double cannot keep
RoundAt(s, n, e, sticky, d) ==
    IF d <= 0 THEN InRange(s, n, e)
    ELSE RoundGuard(s, BShr(n, d - 1), e + d, sticky)

\* the double keeps MantBits bits, and none below 2^MinExp
RoundLen(s, n, e, sticky, len) ==
    RoundAt(s, n, e, sticky,
            IF len - MantBits >= MinExp - e THEN len - MantBits ELSE MinExp - e)

\* the double nearest to (-1)^s * (n + f) * 2^e, where 0 <= f < 1 and
\* sticky says f > 0 (n then has more than MantBits bits)
RoundD(s, n, e, sticky) ==
    IF n = <<>> THEN Zero(s) ELSE RoundLen(s, n, e, sticky, BitLen(n))

\* 5^k for k up to Pow5Step is a limb
Pow5Step == 6

\* quotient of d.q by 5^k, rounded down, and whether it or d was inexact,
\* by halves of k
RECURSIVE BDivPow5(_, _)
DivOnce(d, r) == [q |-> r.q, sticky |-> d.sticky \/ r.r # 0]
BDivPow5(d, k) ==
    IF d.q = <<>> \/ k = 0 THEN d
    ELSE IF k <= Pow5Step THEN DivOnce(d, BDivSmall(d.q, 5 ^ k))
    ELSE BDivPow5(BDivPow5(d, k \div 2), k - k \div 2)

\* a * 5^k, by halves of k
RECURSIVE BMulPow5(_, _)
BMulPow5(a, k) ==
    IF a = <<>> \/ k = 0 THEN a
    ELSE IF k <= Pow5Step THEN BMulSmall(a, 5 ^ k, 0)
    ELSE BMulPow5(BMulPow5(a, k \div 2), k - k \div 2)

\* bits a numerator is shifted by before it is divided by 5^k: 5^k is
\* below 2^(3k), so the quotient keeps more than GuardBits bits
GuardBits == 64
DecBits(k) == GuardBits + 3 * k

DecRound(s, d, bits) == RoundD(s, d.q, 0 - bits, d.sticky)

\* an int times 10^309 or more is above every double, an int over 10^340
\* or more is below half the least double
MaxPow10 == 308
MinPow10 == 0 - 340

\* the double nearest to (-1)^s * a / 10^k = a / 5^k * 2^-k, 0 < a < 2^31
DecMag(s, a, k) ==
    IF 0 - k > MaxPow10 THEN Inf(s)
    ELSE IF 0 - k <= MinPow10 THEN Zero(s)
    ELSE IF k <= 0 THEN RoundD(s, BMulPow5(a, 0 - k), 0 - k, FALSE)
    ELSE DecRound(s, BDivPow5([q |-> BShl(a, DecBits(k)), sticky |-> FALSE], k),
                  DecBits(k) + k)

\* float("<n>e-<e>"): the double nearest to the decimal n / 10^e
Dec(n, e) ==
    IF n = 0 THEN Zero(0)
    ELSE IF n < 0 THEN DecMag(1, BFromInt(0 - n), e)
    ELSE DecMag(0, BFromInt(n), e)

AlignTo(x, y, e) == [a |-> BShl(x.m, x.e - e), b |-> BShl(y.m, y.e - e), e |-> e]

\* the magnitudes of x and y as multiples of one power of two
Aligned(x, y) == AlignTo(x, y, MinOf(x.e, y.e))

\* sign and magnitude of x + y, c comparing the magnitudes
SumOf(x, y, al, c) ==
    IF x.s = y.s THEN [s |-> x.s, n |-> BAdd(al.a, al.b), e |-> al.e]
    ELSE IF c = 0 THEN [s |-> 0, n |-> <<>>, e |-> al.e]
    ELSE IF c > 0 THEN [s |-> x.s, n |-> BSub(al.a, al.b), e |-> al.e]
    ELSE [s |-> y.s, n |-> BSub(al.b, al.a), e |-> al.e]

SumAligned(x, y, al) == SumOf(x, y, al, BCmp(al.a, al.b))

RoundSum(r) == RoundD(r.s, r.n, r.e, FALSE)

\* a double whose least bit is FarBits above another's is more than
\* 2^(FarBits - MantBits) times as large: their sum rounds to it
FarBits == 128

\* x + y: inf + -inf is nan
FAdd(x, y) ==
    IF x.k = "nan" \/ y.k = "nan" THEN NaN
    ELSE IF x.k = "inf" THEN (IF y.k = "inf" /\ y.s # x.s THEN NaN ELSE x)
    ELSE IF y.k = "inf" THEN y
    ELSE IF x.m = <<>> /\ y.m = <<>> THEN Zero(IF x.s = 1 /\ y.s = 1 THEN 1 ELSE 0)
    ELSE IF x.m = <<>> THEN y
    ELSE IF y.m = <<>> THEN x
    ELSE IF x.e - y.e > FarBits THEN x
    ELSE IF y.e - x.e > FarBits THEN y
    ELSE RoundSum(SumAligned(x, y, Aligned(x, y)))

FNeg(x) == IF x.k = "nan" THEN x ELSE [x EXCEPT !.s = 1 - x.s]

\* x - y
FSub(x, y) == FAdd(x, FNeg(y))

SignMul(x, y) == IF x.s = y.s THEN 0 ELSE 1

\* x * y: inf * 0 is nan
FMul(x, y) ==
    IF x.k = "nan" \/ y.k = "nan" THEN NaN
    ELSE IF x.k = "inf" \/ y.k = "inf"
    THEN (IF x.k = "fin" /\ x.m = <<>> THEN NaN
          ELSE IF y.k = "fin" /\ y.m = <<>> THEN NaN
          ELSE Inf(SignMul(x, y)))
    ELSE IF x.m = <<>> \/ y.m = <<>> THEN Zero(SignMul(x, y))
    ELSE RoundD(SignMul(x, y), BMul(x.m, y.m), x.e + y.e, FALSE)

\* 1e6 = 15625 * 2^6
OddPartE6 == 15625
TwoPartE6 == 6
DivBits == 75

DivRound(x, d) == RoundD(x.s, d.q, x.e - DivBits - TwoPartE6, d.r # 0)

\* x / 1e6
FDivE6(x) ==
    IF x.k # "fin" \/ x.m = <<>> THEN x
    ELSE DivRound(x, BDivSmall(BShl(x.m, DivBits), OddPartE6))

\* abs(x)
FAbs(x) == [x EXCEPT !.s = 0]

LeqAligned(s, c) == IF s = 0 THEN c <= 0 ELSE c >= 0
CmpAligned(al) == BCmp(al.a, al.b)

\* x <= y: False when either is nan
FLeq(x, y) ==
    IF x.k = "nan" \/ y.k = "nan" THEN FALSE
    ELSE IF x.k = "inf" THEN x.s = 1 \/ (y.k = "inf" /\ y.s = 0)
    ELSE IF y.k = "inf" THEN y.s = 0
    ELSE IF x.m = <<>> /\ y.m = <<>> THEN TRUE
    ELSE IF x.s # y.s THEN x.s = 1
    ELSE LeqAligned(x.s, CmpAligned(Aligned(x, y)))

\* number held by an int or float value
Num(v) == IF v[1] = "int" THEN Dec(v[2], 0) ELSE v[2]
\* `a += b` with b a float: the result is a float
PyAddFloat(a, d) == PyFloat(FAdd(Num(a), d))

\* ------------------------------------------------------ str operations
IsSpace(c) == c \in {" ", "\t"}

RECURSIVE LStrip(_)
LStrip(s) == IF s # <<>> /\ IsSpace(Head(s)) THEN LStrip(Tail(s)) ELSE s

RECURSIVE RStrip(_)
RStrip(s) ==
    IF s # <<>> /\ IsSpace(s[Len(s)]) THEN RStrip(SubSeq(s, 1, Len(s) - 1)) ELSE s

\* str.strip()
Strip(s) == RStrip(LStrip(s))

\* `tok in s`
Contains(s, tok) == \E i \in 1..Len(s) : s[i] = tok

\* s.startswith(tok)
StartsWith(s, tok) == Len(s) >= 1 /\ s[1] = tok

FirstIndex(s, tok) == CHOOSE i \in 1..Len(s) : s[i] = tok /\ \A j \in 1..(i - 1) : s[j] # tok

\* s.split(tok)
RECURSIVE Split(_, _)
Split(s, tok) ==
    IF ~Contains(s, tok) THEN <<s>>
    ELSE LET i == FirstIndex(s, tok)
         IN <<SubSeq(s, 1, i - 1)>> \o Split(SubSeq(s, i + 1, Len(s)), tok)

\* s.replace(tok, '')
Remove(s, tok) == SelectSeq(s, LAMBDA c : c # tok)

\* s.split(): split on runs of whitespace, no empty fields
RECURSIVE SplitWs(_)
SplitWs(s) ==
    LET t == LStrip(s)
    IN IF t = <<>> THEN <<>>
       ELSE LET n == CHOOSE k \in 1..Len(t) :
                        /\ \A j \in 1..k : ~IsSpace(t[j])
                        /\ (k = Len(t) \/ IsSpace(t[k + 1]))
            IN <<SubSeq(t, 1, n)>> \o SplitWs(SubSeq(t, n + 1, Len(t)))

\* tokens whose last character is "="
EqTokens == {"=", "TITLE=", "RTINSECONDS=", "PEPMASS=", "scan=", "CHARGE="}

\* s.split("=")[-1]: what follows the last "=" (all of s when there is none)
AfterLastEq(s) ==
    LET idx == {i \in 1..Len(s) : s[i] \in EqTokens}
    IN IF idx = {} THEN s
       ELSE LET m == CHOOSE i \in idx : \A j \in idx : j <= i
            IN SubSeq(s, m + 1, Len(s))

\* float(text): the texts that parse, and their values
FloatOf ==
    ("500.25" :> Dec(50025, 2)) @@ ("1000" :> Dec(1000, 0)) @@
    ("120.5" :> Dec(1205, 1)) @@ ("100.0" :> Dec(100, 0)) @@
    ("100" :> Dec(100, 0)) @@ ("100.0011" :> Dec(1000011, 4)) @@
    ("100.005" :> Dec(100005, 3)) @@
    ("200.0" :> Dec(200, 0)) @@ ("50" :> Dec(50, 0)) @@ ("75" :> Dec(75, 0)) @@
    ("10" :> Dec(10, 0)) @@ ("0.01" :> Dec(1, 2)) @@ ("0" :> Dec(0, 0)) @@
    ("-100.0" :> Dec(0 - 100, 0)) @@ ("5" :> Dec(5, 0)) @@
    ("100.001" :> Dec(100001, 3)) @@ ("100.01" :> Dec(10001, 2)) @@
    ("1e308" :> Dec(1, 0 - 308)) @@ ("1e-320" :> Dec(1, 320)) @@
    ("inf" :> Inf(0)) @@ ("nan" :> NaN)

\* float(t) succeeds (float() ignores surrounding whitespace)
IsFloat(t) == Len(Strip(t)) = 1 /\ Strip(t)[1] \in DOMAIN FloatOf
\* float(t) when it succeeds
ToFloat(t) == FloatOf[Strip(t)[1]]

\* str(x) of a float: the shortest decimal text that reads back as x
ReprOf ==
    (Dec(100, 0) :> <<"100.0">>) @@ (Dec(200, 0) :> <<"200.0">>) @@
    (Dec(50025, 2) :> <<"500.25">>) @@ (Dec(1000011, 4) :> <<"100.0011">>) @@
    (Dec(0 - 100, 0) :> <<"-100.0">>)

StrFloat(d) == ReprOf[d]

\* ------------------------------------------------- is_within_tolerance
\* is_within_tolerance with the boundary excluded
is_within_tolerance_strict(mz_value, target, tolerance, tol_type) ==
    LET tolerance_da == IF tol_type = <<"ppm">>
                        THEN FMul(FDivE6(tolerance), target)
                        ELSE tolerance
    IN ~FLeq(tolerance_da, FAbs(FSub(mz_value, target)))

is_within_tolerance(mz_value, target, tolerance, tol_type) ==
    LET tolerance_da == IF tol_type = <<"ppm">>
                        THEN FMul(FDivE6(tolerance), target)
                        ELSE tolerance
    IN FLeq(FAbs(FSub(mz_value, target)), tolerance_da)

\* ------------------------------------------------------------ parse_mgf
\* line 115 (and 195): the scan key of a text that contains "scan="
ScanKey(s) ==
    LET parts == Split(s, "scan=")
    IN IF Len(parts) < 2 THEN <<"Unknown">>        \* except IndexError
       ELSE Split(Remove(Strip(Split(parts[2], "&quot;")[1]), "\""), " ")[1]

\* line 135
InitHits(tg) ==
    [k \in {StrFloat(tg[i].mz) : i \in 1..Len(tg)} |-> PyStr(<<"no">>)]

\* HitStep written as an assignment of the outcome of every comparison
HitStepLastWins(hits, mz, target) ==
    [hits EXCEPT ![StrFloat(target.mz)] =
        IF is_within_tolerance(mz, target.mz, target.tolerance, target.tolerance_type)
        THEN PyStr(<<"yes">>) ELSE PyStr(<<"no">>)]

\* lines 141-142: one iteration of the inner loop
HitStep(hits, mz, target) ==
    IF is_within_tolerance(mz, target.mz, target.tolerance, target.tolerance_type)
    THEN [hits EXCEPT ![StrFloat(target.mz)] = PyStr(<<"yes">>)]
    ELSE hits

\* lines 135-142: target_hits after the first k iterations of the nested
\* loop (outer over mz_values, inner over targets)
RECURSIVE HitsAfter(_, _, _)
HitsAfter(k, mzs, tg) ==
    IF k = 0 THEN InitHits(tg)
    ELSE LET i == ((k - 1) \div Len(tg)) + 1
             j == ((k - 1) % Len(tg)) + 1
         IN HitStep(HitsAfter(k - 1, mzs, tg), mzs[i][1], tg[j])

TargetHits(mzs, tg) == HitsAfter(Len(mzs) * Len(tg), mzs, tg)

\* lines 144-151: the dict appended to precursor_data
BaseRecord(scan, r, pmz, inten, summed) ==
    (<<"scan_number">> :> scan) @@ (<<"RT">> :> r) @@ (<<"pepmass">> :> pmz) @@
    (<<"intensity">> :> inten) @@ (<<"summed_ms2_intensity">> :> summed)

MakeRecord(scan, r, pmz, inten, summed, hits) ==
    hits @@ BaseRecord(scan, r, pmz, inten, summed)

\* MgfBegin keeping the scan key of the block before
MgfBeginKeepsKey ==
    /\ inside_ion_block' = TRUE
    /\ rt' = PyNone
    /\ precursor_mz' = PyNone /\ intensity' = PyNone
    /\ mz_values' = <<>>
    /\ summed_ms2_intensity' = PyInt(0)
    /\ block_emits' = 0
    /\ UNCHANGED <<scan_number, precursor_data, pc>>

\* MgfBegin closing a block that is still open before it starts the next
MgfBeginFlushes ==
    /\ inside_ion_block' = TRUE
    /\ scan_number' = PyNone /\ rt' = PyNone
    /\ precursor_mz' = PyNone /\ intensity' = PyNone
    /\ mz_values' = <<>>
    /\ summed_ms2_intensity' = PyInt(0)
    /\ block_emits' = 0
    /\ precursor_data' =
          IF inside_ion_block /\ Truthy(scan_number) /\ precursor_mz # PyNone
          THEN Append(precursor_data,
                      MakeRecord(scan_number, rt, precursor_mz, intensity,
                                 summed_ms2_intensity, TargetHits(mz_values, targets)))
          ELSE precursor_data
    /\ UNCHANGED pc

\* lines 104-108
MgfBegin ==
    /\ inside_ion_block' = TRUE
    /\ scan_number' = PyNone /\ rt' = PyNone
    /\ precursor_mz' = PyNone /\ intensity' = PyNone
    /\ mz_values' = <<>>
    /\ summed_ms2_intensity' = PyInt(0)
    /\ block_emits' = 0
    /\ UNCHANGED <<precursor_data, pc>>

\* MgfTitle taking the first field delimited by any whitespace
MgfTitleAnyWhitespace(s) ==
    /\ scan_number' =
          IF Contains(s, "scan=")
          THEN LET fields == SplitWs(Remove(Split(Split(s, "scan=")[2], "&quot;")[1], "\""))
               IN PyStr(IF fields = <<>> THEN <<>> ELSE fields[1])
          ELSE scan_number
    /\ UNCHANGED <<inside_ion_block, rt, precursor_mz, intensity, mz_values,
                   summed_ms2_intensity, precursor_data, pc, block_emits>>

\* lines 111-117
MgfTitle(s) ==
    /\ scan_number' = IF Contains(s, "scan=") THEN PyStr(ScanKey(s)) ELSE scan_number
    /\ UNCHANGED <<inside_ion_block, rt, precursor_mz, intensity, mz_values,
                   summed_ms2_intensity, precursor_data, pc, block_emits>>

\* lines 118-122
MgfRt(s) ==
    /\ rt' = IF IsFloat(AfterLastEq(s)) THEN PyFloat(ToFloat(AfterLastEq(s))) ELSE PyNone
    /\ UNCHANGED <<inside_ion_block, scan_number, precursor_mz, intensity, mz_values,
                   summed_ms2_intensity, precursor_data, pc, block_emits>>

\* lines 123-130; an empty field list raises IndexError at line 126, which
\* only the handler of lines 165-167 catches: sys.exit(1)
MgfPepmass(s) ==
    LET pepmass_values == SplitWs(Strip(AfterLastEq(s)))
    IN IF pepmass_values = <<>>
       THEN /\ pc' = "exit"
            /\ UNCHANGED <<inside_ion_block, scan_number, rt, precursor_mz, intensity,
                           mz_values, summed_ms2_intensity, precursor_data, block_emits>>
       ELSE /\ IF ~IsFloat(pepmass_values[1])
               THEN precursor_mz' = PyNone /\ intensity' = PyFloat(Dec(0, 0))
               ELSE IF Len(pepmass_values) > 1
               THEN IF IsFloat(pepmass_values[2])
                    THEN /\ precursor_mz' = PyFloat(ToFloat(pepmass_values[1]))
                         /\ intensity' = PyFloat(ToFloat(pepmass_values[2]))
                    ELSE precursor_mz' = PyNone /\ intensity' = PyFloat(Dec(0, 0))
               ELSE /\ precursor_mz' = PyFloat(ToFloat(pepmass_values[1]))
                    /\ intensity' = PyFloat(Dec(0, 0))
            /\ UNCHANGED <<inside_ion_block, scan_number, rt, mz_values,
                           summed_ms2_intensity, precursor_data, pc, block_emits>>

\* lines 131-151
MgfEnd ==
    /\ inside_ion_block' = FALSE
    /\ precursor_data' =
          IF Truthy(scan_number) /\ precursor_mz # PyNone
          THEN Append(precursor_data,
                      MakeRecord(scan_number, rt, precursor_mz, intensity,
                                 summed_ms2_intensity, TargetHits(mz_values, targets)))
          ELSE precursor_data
    /\ block_emits' = block_emits + Len(precursor_data') - Len(precursor_data)
    /\ UNCHANGED <<scan_number, rt, precursor_mz, intensity, mz_values,
                   summed_ms2_intensity, pc>>

\* MgfIon adding the first number of the pair to the running sum
MgfIonSumsMz(s) ==
    LET parts == SplitWs(s)
        ok == Len(parts) = 2 /\ IsFloat(parts[1]) /\ IsFloat(parts[2])
    IN /\ mz_values' = IF ok THEN Append(mz_values, <<ToFloat(parts[1]), ToFloat(parts[2])>>)
                       ELSE mz_values
       /\ summed_ms2_intensity' = IF ok THEN PyAddFloat(summed_ms2_intensity, ToFloat(parts[1]))
                                  ELSE summed_ms2_intensity
       /\ UNCHANGED <<inside_ion_block, scan_number, rt, precursor_mz, intensity,
                      precursor_data, pc, block_emits>>

\* lines 152-160
MgfIon(s) ==
    LET parts == SplitWs(s)
        ok == Len(parts) = 2 /\ IsFloat(parts[1]) /\ IsFloat(parts[2])
    IN /\ mz_values' = IF ok THEN Append(mz_values, <<ToFloat(parts[1]), ToFloat(parts[2])>>)
                       ELSE mz_values
       /\ summed_ms2_intensity' = IF ok THEN PyAddFloat(summed_ms2_intensity, ToFloat(parts[2]))
                                  ELSE summed_ms2_intensity
       /\ UNCHANGED <<inside_ion_block, scan_number, rt, precursor_mz, intensity,
                      precursor_data, pc, block_emits>>

\* lines 101-160: one iteration of `for line in f`, raw being the line read
MgfLine(raw) ==
    LET s == Strip(raw)
    IN /\ line' = s
       /\ IF s = <<"BEGIN IONS">> THEN MgfBegin
          ELSE IF inside_ion_block
          THEN IF StartsWith(s, "TITLE=") THEN MgfTitle(s)
               ELSE IF StartsWith(s, "RTINSECONDS=") THEN MgfRt(s)
               ELSE IF StartsWith(s, "PEPMASS=") THEN MgfPepmass(s)
               ELSE IF s = <<"END IONS">> THEN MgfEnd
               ELSE MgfIon(s)
          ELSE UNCHANGED <<inside_ion_block, scan_number, rt, precursor_mz, intensity,
                           mz_values, summed_ms2_intensity, precursor_data, pc, block_emits>>

\* ------------------------------------------------------------- inputs
T100ppm == [mz |-> Dec(100, 0), tolerance |-> Dec(10, 0), tolerance_type |-> <<"ppm">>]
T100da == [mz |-> Dec(100, 0), tolerance |-> Dec(1, 2), tolerance_type |-> <<"da">>]
T200da == [mz |-> Dec(200, 0), tolerance |-> Dec(1, 2), tolerance_type |-> <<"da">>]

\* target lists parse_mgf is called with (main, lines 271 and 278)
TargetLists == {<<>>, <<T100ppm>>, <<T200da, T100ppm>>, <<T100ppm, T100da>>}

\* lines of the spectrum file
MgfLines == {
    <<"BEGIN IONS">>,
    <<"END IONS">>,
    <<"TITLE=", "NativeID:", "\"", "scan=", "5", "\"">>,
    <<"TITLE=", "scan=">>,
    <<"RTINSECONDS=", "120.5">>,
    <<"RTINSECONDS=", "abc">>,
    <<"PEPMASS=", "500.25", " ", "1000">>,
    <<"PEPMASS=", "abc">>,
    <<"PEPMASS=">>,
    <<"100.0", " ", "50">>,
    <<"100.0011", "\t", "75">>,
    <<"abc", " ", "5">>,
    <<"CHARGE=", "2+">> }

\* ---------------------------------------------------- parse_mgf as a run
\* lines 92-99: the locals of parse_mgf before the first line is read
MgfStart ==
    /\ inside_ion_block = FALSE
    /\ scan_number = PyNone /\ rt = PyNone
    /\ precursor_mz = PyNone /\ intensity = PyNone
    /\ mz_values = <<>>
    /\ summed_ms2_intensity = PyInt(0)
    /\ line = <<>>
    /\ precursor_data = <<>>
    /\ block_emits = 0

\* a destination that does not exist yet
NoFile == [exists |-> FALSE, rows |-> <<>>]

\* nothing parsed, merged or written yet
NothingYet ==
    /\ mgf_data = <<>> /\ mzid_data = <<>> /\ merged_data = <<>>
    /\ out_file = NoFile /\ result = FALSE

\* parse_mgf called with one of the target lists
Init ==
    /\ pc = "parse_mgf"
    /\ nread = 0
    /\ input = <<>>
    /\ targets \in TargetLists
    /\ MgfStart
    /\ NothingYet

\* the loop reads the next line of the file
ReadLine ==
    /\ pc = "parse_mgf"
    /\ nread < MaxLines
    /\ \E raw \in MgfLines : MgfLine(raw)
    /\ nread' = nread + 1
    /\ UNCHANGED <<targets, mgf_data, otherVars>>

\* ReturnMgf closing a block that is still open at the end of the input
ReturnMgfFlush ==
    /\ pc = "parse_mgf"
    /\ pc' = "returned"
    /\ precursor_data' =
          IF inside_ion_block /\ Truthy(scan_number) /\ precursor_mz # PyNone
          THEN Append(precursor_data,
                      MakeRecord(scan_number, rt, precursor_mz, intensity,
                                 summed_ms2_intensity, TargetHits(mz_values, targets)))
          ELSE precursor_data
    /\ block_emits' = block_emits + Len(precursor_data') - Len(precursor_data)
    /\ mgf_data' = precursor_data'
    /\ UNCHANGED <<nread, targets, inside_ion_block, scan_number, rt, precursor_mz,
                   intensity, mz_values, summed_ms2_intensity, line, otherVars>>

\* end of input: lines 161 and 168
ReturnMgf ==
    /\ pc = "parse_mgf"
    /\ pc' = "returned"
    /\ mgf_data' = precursor_data
    /\ UNCHANGED <<nread, targets, mgfLocals, block_emits, otherVars>>

Next == ReadLine \/ ReturnMgf

Spec == Init /\ [][Next]_vars

\* --------------------------------------------------- parse_mass_targets
\* str.lower() of the texts a tolerance_type cell holds
Lower(t) ==
    [i \in 1..Len(t) |->
        CASE t[i] \in {"PPM", "Ppm"} -> "ppm"
          [] t[i] \in {"Da", "DA"} -> "da"
          [] OTHER -> t[i]]

\* the dict csv.DictReader makes of a data row (line 62)
RowDict(fieldnames, cells) ==
    [h \in {fieldnames[i] : i \in 1..Len(fieldnames)} |->
        cells[CHOOSE i \in 1..Len(fieldnames) :
                 fieldnames[i] = h /\ \A j \in (i + 1)..Len(fieldnames) : fieldnames[j] # h]]

\* line 57
required_headers == <<(<<"m/z">>), (<<"tolerance">>), (<<"tolerance_type">>)>>

\* lines 63-67: the target of one row
TargetOfRow(row) ==
    [mz |-> ToFloat(row[<<"m/z">>]),
     tolerance |-> ToFloat(row[<<"tolerance">>]),
     tolerance_type |-> Lower(Strip(row[<<"tolerance_type">>]))]

\* line 54: the utf-8-sig codec drops a byte-order mark (the token "BOM")
\* that starts the file, that is, the first header cell
utf_8_sig(file) ==
    IF Len(file.fieldnames) > 0 /\ Len(file.fieldnames[1]) > 0
       /\ file.fieldnames[1][1] = "BOM"
    THEN [file EXCEPT !.fieldnames[1] = Tail(@)]
    ELSE file

\* parse_mass_targets returning the rows read before one that has no number
parse_mass_targets_partial(raw) ==
    LET file == utf_8_sig(raw) IN
    IF \E i \in 1..Len(required_headers) :
          \A j \in 1..Len(file.fieldnames) : file.fieldnames[j] # required_headers[i]
    THEN [ok |-> FALSE, targets |-> <<>>]
    ELSE LET rows == [i \in 1..Len(file.rows) |-> RowDict(file.fieldnames, file.rows[i])]
             good == {n \in 0..Len(rows) :
                        \A i \in 1..n : IsFloat(rows[i][<<"m/z">>]) /\ IsFloat(rows[i][<<"tolerance">>])}
             last == CHOOSE n \in good : \A k \in good : k <= n
         IN [ok |-> TRUE, targets |-> [i \in 1..last |-> TargetOfRow(rows[i])]]

\* lines 50-78: ok is FALSE when the function ends in sys.exit(1)
parse_mass_targets(raw) ==
    LET file == utf_8_sig(raw) IN
    IF \E i \in 1..Len(required_headers) :
          \A j \in 1..Len(file.fieldnames) : file.fieldnames[j] # required_headers[i]
    THEN [ok |-> FALSE, targets |-> <<>>]                        \* lines 58-60
    ELSE LET rows == [i \in 1..Len(file.rows) |-> RowDict(file.fieldnames, file.rows[i])]
         IN IF \E i \in 1..Len(rows) :
                  ~IsFloat(rows[i][<<"m/z">>]) \/ ~IsFloat(rows[i][<<"tolerance">>])
            THEN [ok |-> FALSE, targets |-> <<>>]                \* lines 72-74
            ELSE [ok |-> TRUE, targets |-> [i \in 1..Len(rows) |-> TargetOfRow(rows[i])]]

\* ------------------------------------------------ parse_mzid_with_scans
\* dict.get(key, default)
Get(d, key, default) == IF key \in DOMAIN d THEN d[key] ELSE default

\* d[key] = value
Put(d, key, value) == (key :> value) @@ d

\* MzidResult keeping the value of the first result that yields a key
MzidResultFirstWins(sir) ==
    LET value == IF sir.title = PyNone THEN <<>> ELSE sir.title[2]
        key == IF sir.title # PyNone /\ Contains(value, "scan=")
               THEN PyStr(ScanKey(value)) ELSE PyNone
        pass_threshold == \E i \in 1..Len(sir.items) : sir.items[i] = "true"
    IN mzid_data' = IF key # PyNone /\ key[2] \notin DOMAIN mzid_data
                    THEN Put(mzid_data, key[2], pass_threshold)
                    ELSE mzid_data

\* lines 187-204: one SpectrumIdentificationResult.  sir.title is PyNone
\* when the element has no "spectrum title" cvParam, else the value of the
\* first one (the empty text when the attribute is missing); sir.items are
\* the passThreshold attributes of its SpectrumIdentificationItem children.
MzidResult(sir) ==
    LET value == IF sir.title = PyNone THEN <<>> ELSE sir.title[2]
        key == IF sir.title # PyNone /\ Contains(value, "scan=")
               THEN PyStr(ScanKey(value)) ELSE PyNone
        pass_threshold == \E i \in 1..Len(sir.items) : sir.items[i] = "true"
    IN mzid_data' = IF key # PyNone THEN Put(mzid_data, key[2], pass_threshold)
                    ELSE mzid_data

\* ------------------------------------------------------------ merge_data
\* MergeEntry with a scan that is absent from the index counted as passing
MergeEntryDefaultYes(entry, index) ==
    Put(entry, <<"pass_threshold">>,
        IF Get(index, entry[<<"scan_number">>][2], TRUE)
        THEN PyStr(<<"yes">>) ELSE PyStr(<<"no">>))

\* lines 222-224: the entry after the loop body
MergeEntry(entry, index) ==
    Put(entry, <<"pass_threshold">>,
        IF Get(index, entry[<<"scan_number">>][2], FALSE)
        THEN PyStr(<<"yes">>) ELSE PyStr(<<"no">>))

\* lines 218-226: the entries are updated in place and the same list returned
merge_data(data, index) == [i \in 1..Len(data) |-> MergeEntry(data[i], index)]

\* --------------------------------------------------------- export_to_csv
\* line 237
base_fieldnames ==
    <<(<<"scan_number">>), (<<"RT">>), (<<"pepmass">>), (<<"intensity">>),
      (<<"summed_ms2_intensity">>)>>

\* line 238
target_fieldnames(tg) == [i \in 1..Len(tg) |-> StrFloat(tg[i].mz)]

\* final_fieldnames with pass_threshold put before the target columns
final_fieldnames_pass_first(tg) ==
    base_fieldnames \o <<(<<"pass_threshold">>)>> \o target_fieldnames(tg)

\* line 239
final_fieldnames(tg) == base_fieldnames \o target_fieldnames(tg) \o <<(<<"pass_threshold">>)>>

\* lines 248-249: the values written for one row, in the order of fieldnames
CleanedRow(row, fieldnames) ==
    [i \in 1..Len(fieldnames) |-> Get(row, fieldnames[i], PyStr(<<>>))]

\* export_to_csv opening the destination before it looks at the rows
export_to_csv_opens_first(data, file, tg) ==
    [exists |-> TRUE,
     rows |-> <<final_fieldnames(tg)>> \o
              [i \in 1..Len(data) |-> CleanedRow(data[i], final_fieldnames(tg))]]

\* lines 229-250: the destination after the call; untouched when data is empty
export_to_csv(data, file, tg) ==
    IF data = <<>> THEN file
    ELSE [exists |-> TRUE,
          rows |-> <<final_fieldnames(tg)>> \o
                   [i \in 1..Len(data) |-> CleanedRow(data[i], final_fieldnames(tg))]]

\* ------------------------------------------------------------------ main
\* lines 261-279: input.targets_file is <<>> when three arguments were given
MainArgs ==
    /\ pc = "main"
    /\ IF input.targets_file = <<>>
       THEN targets' = <<>> /\ pc' = "parse_mgf"
       ELSE LET r == parse_mass_targets(input.targets_file[1])
            IN IF r.ok THEN targets' = r.targets /\ pc' = "parse_mgf"
               ELSE targets' = targets /\ pc' = "exit"
    /\ UNCHANGED <<nread, mgfLocals, block_emits, mgf_data, otherVars>>

\* line 282: the loop of parse_mgf takes the next line of the file
MainReadLine ==
    /\ pc = "parse_mgf"
    /\ nread < Len(input.mgf)
    /\ MgfLine(input.mgf[nread + 1])
    /\ nread' = nread + 1
    /\ UNCHANGED <<targets, mgf_data, otherVars>>

\* line 282: end of the spectrum file, parse_mgf returns
MainMgfDone ==
    /\ pc = "parse_mgf"
    /\ nread = Len(input.mgf)
    /\ mgf_data' = precursor_data
    /\ pc' = "parse_mzid"
    /\ nread' = 0
    /\ UNCHANGED <<targets, mgfLocals, block_emits, input, result, mzid_data,
                   merged_data, out_file>>

\* line 283: the loop of parse_mzid_with_scans takes the next result element
MainMzidResult ==
    /\ pc = "parse_mzid"
    /\ input.mzid_error = "None"
    /\ nread < Len(input.mzid)
    /\ MzidResult(input.mzid[nread + 1])
    /\ nread' = nread + 1
    /\ UNCHANGED <<pc, targets, mgfLocals, block_emits, mgf_data, input, result,
                   merged_data, out_file>>

\* line 283: parse_mzid_with_scans returns
MainMzidDone ==
    /\ pc = "parse_mzid"
    /\ input.mzid_error = "None"
    /\ nread = Len(input.mzid)
    /\ pc' = "merge_data"
    /\ UNCHANGED <<nread, targets, mgfLocals, block_emits, mgf_data, otherVars>>

\* lines 182 and 206-211: the identification file is missing or is not
\* well-formed XML; ET.parse raises before any result element is seen and
\* the handler calls sys.exit(1)
MainMzidFail ==
    /\ pc = "parse_mzid"
    /\ input.mzid_error # "None"
    /\ pc' = "exit"
    /\ UNCHANGED <<nread, targets, mgfLocals, block_emits, mgf_data, otherVars>>

\* line 284: merged_data and mgf_data are the same list
MainMerge ==
    /\ pc = "merge_data"
    /\ mgf_data' = merge_data(mgf_data, mzid_data)
    /\ merged_data' = mgf_data'
    /\ pc' = "export_to_csv"
    /\ UNCHANGED <<nread, targets, mgfLocals, block_emits, input, result, mzid_data,
                   out_file>>

\* line 286
MainExport ==
    /\ pc = "export_to_csv"
    /\ out_file' = export_to_csv(merged_data, out_file, targets)
    /\ pc' = "done"
    /\ UNCHANGED <<nread, targets, mgfLocals, block_emits, mgf_data, input, result,
                   mzid_data, merged_data>>

NextMain ==
    \/ MainArgs \/ MainReadLine \/ MainMgfDone \/ MainMzidResult \/ MainMzidDone
    \/ MainMzidFail \/ MainMerge \/ MainExport

\* ---------------------------------------------------------- main: inputs
Cell(tok) == <<tok>>
TargetHeader == <<Cell("m/z"), Cell("tolerance"), Cell("tolerance_type")>>

\* target tables: one target; two rows whose m/z have the same text once
\* parsed; two distinct targets; a missing column; a cell that is no number
TF_one == [fieldnames |-> TargetHeader,
           rows |-> <<(<<Cell("100.0"), Cell("10"), Cell("ppm")>>)>>]
TF_dup == [fieldnames |-> TargetHeader,
           rows |-> <<(<<Cell("100.0"), Cell("10"), Cell("PPM")>>),
                      (<<Cell("100"), Cell("0.01"), <<" ", "Da">> >>)>>]
TF_two == [fieldnames |-> TargetHeader,
           rows |-> <<(<<Cell("200.0"), Cell("0.01"), Cell("Da")>>),
                      (<<Cell("100.0"), Cell("10"), Cell("ppm")>>)>>]
TF_nocol == [fieldnames |-> <<Cell("m/z"), Cell("tolerance")>>,
             rows |-> <<(<<Cell("100.0"), Cell("10")>>)>>]
TF_badnum == [fieldnames |-> TargetHeader,
              rows |-> <<(<<Cell("abc"), Cell("10"), Cell("ppm")>>)>>]
\* a table that starts with a byte-order mark; padded header names; padded
\* cells; a row with no number after a good row
TF_bom == [fieldnames |-> <<(<<"BOM", "m/z">>), Cell("tolerance"), Cell("tolerance_type")>>,
           rows |-> <<(<<Cell("100.0"), Cell("10"), Cell("ppm")>>)>>]
TF_padhdr == [fieldnames |-> <<(<<" ", "m/z", " ">>), Cell("tolerance"),
                               (<<" ", "tolerance_type">>)>>,
              rows |-> <<(<<Cell("100.0"), Cell("10"), Cell("ppm")>>)>>]
TF_padcell == [fieldnames |-> TargetHeader,
               rows |-> <<(<<(<<" ", "100.0", " ">>), (<<"10", "\t">>),
                             (<<" ", "PPM", " ">>)>>)>>]
TF_badrow == [fieldnames |-> TargetHeader,
              rows |-> <<(<<Cell("100.0"), Cell("10"), Cell("ppm")>>),
                         (<<Cell("200.0"), Cell("abc"), Cell("Da")>>)>>]
TargetFiles == {TF_one, TF_dup, TF_two, TF_nocol, TF_badnum,
                TF_bom, TF_padhdr, TF_padcell, TF_badrow}

Title5 == <<"NativeID:", "\"", "scan=", "5", "\"">>
Title7 == <<"File:", "x", " ", "scan=", "7", " ", "x">>

\* spectrum files: the one-block scenario; two blocks; no block; a block cut
\* off by the end of the file; a PEPMASS= line with no field
MF_one == <<(<<"BEGIN IONS">>), <<"TITLE=">> \o Title5, (<<"RTINSECONDS=", "120.5">>),
            (<<"PEPMASS=", "500.25", " ", "1000">>), (<<"100.0", " ", "50">>),
            (<<"200.0", " ", "75">>), (<<"END IONS">>)>>
MF_two == <<(<<"BEGIN IONS">>), <<"TITLE=">> \o Title7, (<<"PEPMASS=", "500.25">>),
            (<<"100.0011", " ", "75">>), (<<"END IONS">>),
            (<<"BEGIN IONS">>), <<"TITLE=">> \o Title5, (<<"RTINSECONDS=", "abc">>),
            (<<"PEPMASS=", "500.25", " ", "1000">>), (<<"abc", " ", "5">>),
            (<<"100.0", " ", "50">>), (<<"END IONS">>)>>
MF_none == <<(<<"CHARGE=", "2+">>)>>
MF_cut == <<(<<"BEGIN IONS">>), <<"TITLE=">> \o Title5, (<<"PEPMASS=", "500.25">>)>>
MF_nofield == <<(<<"BEGIN IONS">>), (<<"PEPMASS=">>), (<<"END IONS">>)>>
MgfFiles == {MF_one, MF_two, MF_none, MF_cut, MF_nofield}

\* identification documents, as the sequence of their result elements
Sir(title, items) == [title |-> title, items |-> items]
MzidDocs == {
    <<>>,
    <<Sir(PyStr(Title5), <<"true">>)>>,
    <<Sir(PyStr(Title5), <<"false">>)>>,
    <<Sir(PyStr(Title7), <<"false", "true">>), Sir(PyNone, <<"true">>)>>,
    <<Sir(PyStr(Title5), <<"true">>), Sir(PyStr(Title5), <<>>)>> }

\* titles that contain "scan="
MaxTitleLen == 4
TitleTokens == {"scan=", "5", " ", "\t", "\"", "&quot;", "x"}
Titles ==
    {t \in UNION {[1..n -> TitleTokens] : n \in 1..MaxTitleLen} : Contains(t, "scan=")}

\* a run on a spectrum and an identification result that carry the title t
TitleInput(t) ==
    [targets_file |-> <<>>,
     mgf |-> <<(<<"BEGIN IONS">>), <<"TITLE=">> \o t,
               (<<"PEPMASS=", "500.25", " ", "1000">>), (<<"END IONS">>)>>,
     mzid |-> <<Sir(PyStr(t), <<"true">>)>>,
     mzid_error |-> "None"]

\* what ET.parse raises on the identification file, "None" when it parses
MzidErrors == {"FileNotFoundError", "ParseError"}

MainInputs ==
    [targets_file : {<<>>} \cup {<<f>> : f \in TargetFiles},
     mgf : MgfFiles, mzid : MzidDocs, mzid_error : {"None"}]
    \cup [targets_file : {<<>>} \cup {<<f>> : f \in TargetFiles},
          mgf : MgfFiles, mzid : {<<>>}, mzid_error : MzidErrors]
    \cup {TitleInput(t) : t \in Titles}

\* main called with one of the inputs
InitMain ==
    /\ pc = "main"
    /\ nread = 0
    /\ input \in MainInputs
    /\ targets = <<>>
    /\ MgfStart
    /\ NothingYet

SpecMain == InitMain /\ [][NextMain]_vars

\* ------------------------------------------- is_within_tolerance, called
\* calls whose difference or tolerance window leaves the range of the finite
\* doubles: 1e308 - -1e308 and (1e206 / 1e6) * 1e200 overflow,
\* (1e-320 / 1e6) * 100.0 underflows
OutOfRangeArgs ==
    {[mz_value |-> Dec(1, 0 - 308), target |-> Dec(0 - 1, 0 - 308),
      tolerance |-> Dec(17, 0 - 307), tol_type |-> <<"da">>],
     [mz_value |-> Dec(1, 0 - 200), target |-> Dec(1, 0 - 200),
      tolerance |-> Dec(1, 0 - 206), tol_type |-> <<"ppm">>],
     [mz_value |-> Dec(100, 0), target |-> Dec(100, 0),
      tolerance |-> Dec(1, 320), tol_type |-> <<"ppm">>]}

TolArgs ==
    OutOfRangeArgs \cup
    [mz_value : {Dec(100, 0), Dec(1000011, 4), Dec(100005, 3), Dec(1005, 1),
                 Dec(995, 1), Dec(200, 0), Dec(0 - 100, 0), Dec(100001, 3),
                 Dec(10001, 2), Dec(228, 1)},
     target : {Dec(100, 0), Dec(200, 0), Dec(0, 0), Dec(0 - 100, 0), Dec(28, 1)},
     tolerance : {Dec(10, 0), Dec(1, 2), Dec(0, 0), Dec(0 - 10, 0), Dec(5, 1),
                  Dec(5000, 0), Dec(20, 0)},
     tol_type : {<<"ppm">>, <<"PPM">>, <<"da">>, <<"absolute">>, <<>>}]

InitTol ==
    /\ pc = "is_within_tolerance"
    /\ nread = 0
    /\ input \in TolArgs
    /\ targets = <<>>
    /\ MgfStart
    /\ NothingYet

\* lines 81-87
TolCall ==
    /\ pc = "is_within_tolerance"
    /\ result' = is_within_tolerance(input.mz_value, input.target, input.tolerance,
                                     input.tol_type)
    /\ pc' = "done"
    /\ UNCHANGED <<nread, targets, mgfLocals, block_emits, mgf_data, input, mzid_data,
                   merged_data, out_file>>

NextTol == TolCall

SpecTol == InitTol /\ [][NextTol]_vars

\* ------------------------------------------- parse_mgf on whole files
\* lines a spectrum file is made of: the two markers, a title, a precursor
\* line, an ion line, a precursor line that is no number and one with no
\* field
BlockLines == {
    <<"BEGIN IONS">>,
    <<"END IONS">>,
    <<"TITLE=">> \o Title5,
    <<"PEPMASS=", "500.25", " ", "1000">>,
    <<"100.0", " ", "50">>,
    <<"PEPMASS=", "abc">>,
    <<"PEPMASS=">> }

\* the files of up to MaxFileLines lines that start with a BEGIN IONS
MaxFileLines == 6
BlockFiles ==
    {<<(<<"BEGIN IONS">>)>> \o rest :
        rest \in UNION {[1..n -> BlockLines] : n \in 0..(MaxFileLines - 1)}}

\* parse_mgf called on one of the files, with one target
InitBlocks ==
    /\ pc = "parse_mgf"
    /\ nread = 0
    /\ input \in [mgf : BlockFiles]
    /\ targets = <<T100ppm>>
    /\ MgfStart
    /\ NothingYet

NextBlocks == MainReadLine \/ MainMgfDone

SpecBlocks == InitBlocks /\ [][NextBlocks]_vars

\* ------------------------------------------------- export_to_csv, called
\* rows as merge_data leaves them: with one target column, with none, with two
ExportRows == {
    MergeEntry(MakeRecord(PyStr(<<"5">>), PyFloat(Dec(1205, 1)), PyFloat(Dec(50025, 2)),
                          PyFloat(Dec(1000, 0)), PyFloat(Dec(125, 0)),
                          TargetHits(<<(<<Dec(100, 0), Dec(50, 0)>>)>>, <<T100ppm>>)),
               (<<"5">> :> TRUE)),
    MergeEntry(MakeRecord(PyStr(<<"7">>), PyNone, PyFloat(Dec(50025, 2)),
                          PyFloat(Dec(0, 0)), PyInt(0), TargetHits(<<>>, <<>>)),
               <<>>),
    MergeEntry(MakeRecord(PyStr(<<"7">>), PyNone, PyFloat(Dec(50025, 2)),
                          PyFloat(Dec(0, 0)), PyFloat(Dec(75, 0)),
                          TargetHits(<<(<<Dec(200, 0), Dec(75, 0)>>)>>, <<T200da, T100ppm>>)),
               (<<"5">> :> TRUE)) }

\* a destination left by an earlier run
OldFile == [exists |-> TRUE, rows |-> <<(<<(<<"scan_number">>)>>), (<<PyStr(<<"x">>)>>)>>]

MaxRows == 2
ExportData == UNION {[1..n -> ExportRows] : n \in 0..MaxRows}

InitExport ==
    /\ pc = "export_to_csv"
    /\ nread = 0
    /\ input = <<>>
    /\ targets \in TargetLists
    /\ MgfStart
    /\ mgf_data \in ExportData
    /\ merged_data = mgf_data
    /\ mzid_data = <<>> /\ out_file \in {NoFile, OldFile} /\ result = FALSE

NextExport == MainExport

SpecExport == InitExport /\ [][NextExport]_vars

\* ------------------------------------------------------------- claims
Last(s) == s[Len(s)]

RECURSIVE SumIntensities(_)
SumIntensities(mzs) ==
    IF mzs = <<>> THEN Dec(0, 0)
    ELSE FAdd(SumIntensities(SubSeq(mzs, 1, Len(mzs) - 1)), Last(mzs)[2])

\* a step of the loop of parse_mgf that consumed a line
ReadsLine == nread' = nread + 1

\* the records parse_mgf hands to its caller: none once it has exited
Emitted == IF pc = "exit" THEN <<>> ELSE precursor_data

\* the line just read ends a block in which a non-empty scan key and a
\* precursor m/z were parsed
EndsQualifyingBlock ==
    /\ line' = <<"END IONS">> /\ inside_ion_block
    /\ Truthy(scan_number) /\ precursor_mz # PyNone

\* C1: whatever the input lines, every line that ends a block with a
\* non-empty scan key and a precursor m/z adds exactly one record, carrying
\* that block's fields, at the end of the records parse_mgf emits, whether
\* or not a retention time was parsed, and every other line leaves the
\* emitted records as they were.
C1_OneRecordPerBlock ==
    [][ReadsLine =>
          IF EndsQualifyingBlock
          THEN /\ Len(Emitted') = Len(Emitted) + 1
               /\ SubSeq(Emitted', 1, Len(Emitted)) = Emitted
               /\ Last(Emitted')[<<"scan_number">>] = scan_number
               /\ Last(Emitted')[<<"pepmass">>] = precursor_mz
               /\ Last(Emitted')[<<"RT">>] = rt
          ELSE Emitted' = Emitted]_vars

\* the line just read reaches the ion branch (lines 152-160)
IonBranchLine ==
    /\ inside_ion_block
    /\ line' \notin {<<"BEGIN IONS">>, <<"END IONS">>}
    /\ ~StartsWith(line', "TITLE=") /\ ~StartsWith(line', "RTINSECONDS=")
    /\ ~StartsWith(line', "PEPMASS=")

\* the line just read is a pair of two numbers
TwoNumbers == Len(SplitWs(line')) = 2 /\ \A i \in 1..2 : IsFloat(SplitWs(line')[i])

\* C2: a line of a block that is no TITLE=, RTINSECONDS=, PEPMASS= or marker
\* line and consists of two numbers appends its pair to the ion list; any
\* other line, a BEGIN IONS apart, leaves the ion list and the running sum
\* alone, and a malformed ion line does not stop the parse; the running sum
\* always equals the sum of the intensities of the ion list, and so does
\* summed_ms2_intensity of a record at the moment it is emitted.
C2_SumOfIonLines ==
    [][ReadsLine =>
          /\ (IonBranchLine /\ TwoNumbers) =>
                mz_values' = Append(mz_values,
                                    <<ToFloat(SplitWs(line')[1]), ToFloat(SplitWs(line')[2])>>)
          /\ (~(IonBranchLine /\ TwoNumbers) /\ line' # <<"BEGIN IONS">>) =>
                /\ mz_values' = mz_values
                /\ summed_ms2_intensity' = summed_ms2_intensity
          /\ (IonBranchLine /\ ~TwoNumbers) => pc' = "parse_mgf"
          /\ Num(summed_ms2_intensity') = SumIntensities(mz_values')
          /\ Len(precursor_data') > Len(precursor_data) =>
                Num(Last(precursor_data')[<<"summed_ms2_intensity">>]) =
                    SumIntensities(mz_values)]_vars

\* a record whose two ion lines sum to 125 has been emitted
C2_Witness ==
    /\ block_emits = 1 /\ Len(mz_values) = 2
    /\ Last(precursor_data)[<<"summed_ms2_intensity">>] = PyFloat(Dec(125, 0))

\* C3: when the input ends inside a block, parse_mgf returns the records
\* of the earlier blocks only: no record was appended since the BEGIN IONS
\* of the open block.
C3_TruncatedBlockDropped ==
    (pc = "returned" /\ inside_ion_block) =>
        (block_emits = 0 /\ mgf_data = precursor_data)

\* the input ended inside a block whose scan key and precursor m/z were parsed
C3_Witness ==
    /\ pc = "returned" /\ inside_ion_block
    /\ Truthy(scan_number) /\ precursor_mz # PyNone /\ mz_values # <<>>

\* the target columns of the list tg
TargetKeys(tg) == {StrFloat(tg[j].mz) : j \in 1..Len(tg)}

\* some accumulated peak is within tolerance of some target whose text is key
SomePeakMatches(key, mzs, tg) ==
    \E i \in 1..Len(mzs) : \E j \in 1..Len(tg) :
        /\ StrFloat(tg[j].mz) = key
        /\ is_within_tolerance(mzs[i][1], tg[j].mz, tg[j].tolerance, tg[j].tolerance_type)

\* C4: in the record just emitted every target column is "yes" iff some
\* accumulated peak is within tolerance of some target with that text, and
\* "no" otherwise; during the evaluation a column that is "yes" after an
\* iteration is "yes" after the next one.
C4_TargetHits ==
    block_emits = 1 =>
        /\ \A key \in TargetKeys(targets) :
              Last(precursor_data)[key] =
                  IF SomePeakMatches(key, mz_values, targets)
                  THEN PyStr(<<"yes">>) ELSE PyStr(<<"no">>)
        /\ \A k \in 1..(Len(mz_values) * Len(targets)) : \A key \in TargetKeys(targets) :
              HitsAfter(k - 1, mz_values, targets)[key] = PyStr(<<"yes">>) =>
                  HitsAfter(k, mz_values, targets)[key] = PyStr(<<"yes">>)

\* a record was emitted whose first peak matches a target and whose second
\* peak matches none
C4_Witness ==
    /\ block_emits = 1 /\ Len(mz_values) = 2 /\ targets # <<>>
    /\ SomePeakMatches(<<"100.0">>, <<mz_values[1]>>, targets)
    /\ \A key \in TargetKeys(targets) : ~SomePeakMatches(key, <<mz_values[2]>>, targets)
    /\ Last(precursor_data)[<<"100.0">>] = PyStr(<<"yes">>)

\* C9: no RTINSECONDS=, PEPMASS= or ion line of a block makes parse_mgf
\* exit: the parse goes on to the later blocks.
C9_NoFieldFailureAborts == pc # "exit"

\* C5: after merge_data every record's pass_threshold is "yes" iff the
\* index maps the record's scan key to true, and "no" when the key is
\* absent or mapped to false.
C5_PassThreshold ==
    pc \in {"export_to_csv", "done"} =>
        \A i \in 1..Len(merged_data) :
            LET key == merged_data[i][<<"scan_number">>][2]
            IN merged_data[i][<<"pass_threshold">>] =
                  IF key \in DOMAIN mzid_data /\ mzid_data[key]
                  THEN PyStr(<<"yes">>) ELSE PyStr(<<"no">>)

\* two records were merged: one whose key the index maps to true, one whose
\* key the index does not hold
C5_Witness ==
    /\ pc = "done" /\ Len(merged_data) = 2
    /\ merged_data[1][<<"scan_number">>][2] \notin DOMAIN mzid_data
    /\ merged_data[1][<<"pass_threshold">>] = PyStr(<<"no">>)
    /\ merged_data[2][<<"scan_number">>][2] \in DOMAIN mzid_data
    /\ merged_data[2][<<"pass_threshold">>] = PyStr(<<"yes">>)

\* the call is_within_tolerance(mz_value, target, tolerance, tol_type)
TolCase(mz_value, target, tolerance, tol_type) ==
    [mz_value |-> mz_value, target |-> target, tolerance |-> tolerance,
     tol_type |-> tol_type]

\* x - y as a real number, not rounded
ExactSub(x, y) ==
    IF y.m = <<>> THEN x
    ELSE IF x.m = <<>> THEN FNeg(y)
    ELSE LET r == SumAligned(x, FNeg(y), Aligned(x, y))
         IN Fin(r.s, r.n, IF r.n = <<>> THEN 0 ELSE r.e)

\* x * y as a real number, not rounded
ExactMul(x, y) ==
    IF x.m = <<>> \/ y.m = <<>> THEN Zero(0)
    ELSE Fin(SignMul(x, y), BMul(x.m, y.m), x.e + y.e)

Million == Dec(1000000, 0)

\* the three calls the claim names
ClaimExamples ==
    /\ input = TolCase(Dec(100, 0), Dec(100, 0), Dec(10, 0), <<"ppm">>) => result
    /\ input = TolCase(Dec(1000011, 4), Dec(100, 0), Dec(10, 0), <<"ppm">>) => ~result
    /\ input = TolCase(Dec(100005, 3), Dec(100, 0), Dec(1, 2), <<"absolute">>) => result

\* C6 as stated, over the real numbers: the value returned is
\* |value - target| <= tolerance * target / 1e6 when the mode is "ppm" and
\* |value - target| <= tolerance for any other mode, the difference, the
\* product and the quotient being exact (the quotient is cleared by
\* multiplying both sides by 1e6).
C6_ExactInequality ==
    pc = "done" =>
        LET dist == FAbs(ExactSub(input.mz_value, input.target))
        IN /\ result = IF input.tol_type = <<"ppm">>
                       THEN FLeq(ExactMul(dist, Million),
                                 ExactMul(input.tolerance, input.target))
                       ELSE FLeq(dist, input.tolerance)
           /\ ClaimExamples

\* C6: the value returned is |value - target| <= (tolerance / 1e6) * target
\* when the mode is "ppm" and |value - target| <= tolerance for any other
\* mode, where the difference, the quotient and the product are each rounded
\* to the nearest double; (100.0, 100.0, 10, ppm) and
\* (100.005, 100.0, 0.01, absolute) match, (100.0011, 100.0, 10, ppm) does not.
C6_WithinTolerance ==
    pc = "done" =>
        LET dist == FAbs(FSub(input.mz_value, input.target))
        IN /\ result = IF input.tol_type = <<"ppm">>
                       THEN FLeq(dist, FMul(FDivE6(input.tolerance), input.target))
                       ELSE FLeq(dist, input.tolerance)
           /\ ClaimExamples

\* 22.8 was found within 20 Da of 2.8: the two doubles are more than 20
\* apart, and their difference rounds to 20.0
C6_Witness ==
    /\ pc = "done" /\ result
    /\ input = TolCase(Dec(228, 1), Dec(28, 1), Dec(20, 0), <<"da">>)
    /\ ~FLeq(ExactSub(input.mz_value, input.target), input.tolerance)
    /\ FSub(input.mz_value, input.target) = input.tolerance

\* the first occurrences of the elements of s, in order
RECURSIVE Distinct(_)
Distinct(s) ==
    IF s = <<>> THEN <<>>
    ELSE LET front == SubSeq(s, 1, Len(s) - 1)
         IN IF \E i \in 1..Len(front) : front[i] = Last(s)
            THEN Distinct(front) ELSE Append(Distinct(front), Last(s))

\* the header of the written file
Header == out_file.rows[1]

\* C7: for a non-empty row set the header starts with scan_number, RT,
\* pepmass, intensity, summed_ms2_intensity and ends with pass_threshold,
\* the columns between them are the target columns in target load order,
\* one data row per record follows in input order, and a cell is the
\* record's value for its column, or the empty string when the record has
\* none.
C7_HeaderAndRows ==
    (pc = "done" /\ merged_data # <<>>) =>
        /\ out_file.exists
        /\ Len(Header) >= 6
        /\ SubSeq(Header, 1, 5) = base_fieldnames
        /\ Last(Header) = <<"pass_threshold">>
        /\ Distinct(SubSeq(Header, 6, Len(Header) - 1)) =
              Distinct([j \in 1..Len(targets) |-> StrFloat(targets[j].mz)])
        /\ Len(out_file.rows) = 1 + Len(merged_data)
        /\ \A i \in 1..Len(merged_data) :
              /\ Len(out_file.rows[i + 1]) = Len(Header)
              /\ \A c \in 1..Len(Header) :
                    out_file.rows[i + 1][c] =
                        IF Header[c] \in DOMAIN merged_data[i]
                        THEN merged_data[i][Header[c]] ELSE PyStr(<<>>)

\* two target columns were written and the second row, which has no value
\* for the first of them, got the empty string there
C7_Witness ==
    /\ pc = "done" /\ Len(merged_data) = 2 /\ Len(targets) = 2
    /\ Header[6] # Header[7]
    /\ Header[6] \in DOMAIN merged_data[1]
    /\ Header[6] \notin DOMAIN merged_data[2]
    /\ out_file.rows[3][6] = PyStr(<<>>)
    /\ out_file.rows[2][1] # out_file.rows[3][1]

\* C8: targets whose values have the same text collapse to one column: the
\* written header holds every target text exactly once, so there are as
\* many target columns as distinct target texts.
C8_OneColumnPerTargetText ==
    (pc = "done" /\ out_file.exists) =>
        /\ Len(Header) = 5 + Cardinality(TargetKeys(targets)) + 1
        /\ \A key \in TargetKeys(targets) :
              Cardinality({c \in 1..Len(Header) : Header[c] = key}) = 1

\* the run is on a spectrum and an identification result with the same title
SameTitleRun ==
    /\ Len(input.mzid) = 1 /\ input.mzid[1].title # PyNone
    /\ Contains(input.mzid[1].title[2], "scan=")
    /\ \E i \in 1..Len(input.mgf) :
          /\ input.mgf[i] = <<"TITLE=">> \o input.mzid[1].title[2]
          /\ \A j \in 1..Len(input.mgf) : StartsWith(input.mgf[j], "TITLE=") => j = i
          /\ \E j \in 1..(i - 1) : input.mgf[j] = <<"BEGIN IONS">>

\* C10: when a block's TITLE= line and an identification result carry the
\* same title containing "scan=", the key parse_mgf extracted is the one
\* key parse_mzid_with_scans stored, so a record emitted for the block gets
\* the pass_threshold of that result.
C10_SameKeyBothSides ==
    (pc \in {"merge_data", "export_to_csv", "done"} /\ SameTitleRun) =>
        /\ scan_number # PyNone
        /\ DOMAIN mzid_data = {scan_number[2]}
        /\ pc = "done" =>
              \A i \in 1..Len(merged_data) :
                  merged_data[i][<<"pass_threshold">>] =
                      IF \E k \in 1..Len(input.mzid[1].items) : input.mzid[1].items[k] = "true"
                      THEN PyStr(<<"yes">>) ELSE PyStr(<<"no">>)

\* a title with a tab after the scan number joined its identification result
C10_Witness ==
    /\ pc = "done" /\ SameTitleRun
    /\ Contains(input.mzid[1].title[2], "\t")
    /\ Len(scan_number[2]) = 3
    /\ Len(merged_data) = 1
    /\ merged_data[1][<<"pass_threshold">>] = PyStr(<<"yes">>)

\* the loop of parse_mzid_with_scans took the result element input.mzid[nread']
ReadsResult == pc = "parse_mzid" /\ nread' = nread + 1

\* some child item of the result element carries passThreshold="true"
SomeItemPasses(sir) == \E i \in 1..Len(sir.items) : sir.items[i] = "true"

\* the result element has a spectrum title from which a non-empty scan key
\* is extracted
HasScanKey(sir) ==
    /\ sir.title # PyNone
    /\ Contains(sir.title[2], "scan=")
    /\ ScanKey(sir.title[2]) # <<>>

\* C11: a result element adds an entry to the index only when a scan key
\* was extracted from its spectrum title; an element with no title, or with
\* a title that yields no key, leaves the index as it was, so that no empty
\* key is ever in the index; the value stored is true iff some child item
\* is flagged passThreshold="true".
C11_OnlyKeyedResultsIndexed ==
    [][ReadsResult =>
          LET sir == input.mzid[nread']
          IN IF HasScanKey(sir)
             THEN mzid_data' = Put(mzid_data, ScanKey(sir.title[2]), SomeItemPasses(sir))
             ELSE mzid_data' = mzid_data /\ <<>> \notin DOMAIN mzid_data']_vars

\* the stages of main in the order of lines 278-286
StageOrder == <<"main", "parse_mgf", "parse_mzid", "merge_data", "export_to_csv", "done">>
StageIndex(p) == CHOOSE i \in 1..Len(StageOrder) : StageOrder[i] = p

\* loading the target table fails: the decoded table lacks a required
\* column or a value of m/z or tolerance is no number
TargetLoadFails ==
    /\ input.targets_file # <<>>
    /\ LET file == utf_8_sig(input.targets_file[1])
       IN \/ \E h \in {<<"m/z">>, <<"tolerance">>, <<"tolerance_type">>} :
                \A j \in 1..Len(file.fieldnames) : file.fieldnames[j] # h
          \/ \E i \in 1..Len(file.rows) : \E j \in 1..Len(file.fieldnames) :
                /\ file.fieldnames[j] \in {<<"m/z">>, <<"tolerance">>}
                /\ ~IsFloat(file.rows[i][j])

\* C12: a step of main stays in its stage or moves to the next one in the
\* order target load, spectrum parse, identification parse, merge, export;
\* a failed target load or a failed identification parse ends the run there
\* with no target kept; once the run has ended in failure no stage runs and
\* the output file is never written.
C12_StagesInOrder ==
    [][/\ pc # "exit"
       /\ pc' # pc =>
             \/ pc' = "exit"
             \/ StageIndex(pc') = StageIndex(pc) + 1
       /\ (pc = "main" /\ TargetLoadFails) =>
             (pc' = "exit" /\ targets' = <<>>)
       /\ (pc = "main" /\ ~TargetLoadFails) => pc' = "parse_mgf"
       /\ (pc = "parse_mzid" /\ input.mzid_error # "None") => pc' = "exit"
       /\ pc' = "exit" =>
             (out_file' = NoFile /\ merged_data' = <<>> /\ mzid_data' = <<>>)
       /\ out_file' # out_file => (pc = "export_to_csv" /\ pc' = "done")]_vars

\* the run ended at the identification parse, after the spectrum parse had
\* produced a record, and nothing was merged or written
C12_Witness ==
    /\ pc = "exit" /\ input.mzid_error = "ParseError"
    /\ input.targets_file # <<>> /\ targets # <<>>
    /\ mgf_data # <<>> /\ merged_data = <<>> /\ out_file = NoFile

\* C13: export_to_csv called with no rows returns normally and leaves the
\* destination as it was: a file that exists keeps its content, a file that
\* does not exist is not created.
C13_EmptyExportLeavesFile ==
    [][(pc = "export_to_csv" /\ merged_data = <<>>) =>
          (pc' = "done" /\ out_file' = out_file)]_vars

\* export_to_csv returned from a call with no rows and the file of the
\* earlier run is still there
C13_Witness ==
    pc = "done" /\ merged_data = <<>> /\ out_file = OldFile

\* C14: merge_data leaves its inputs as they were: the records parse_mgf
\* returned and the index are the same after the merge as before.
C14_MergeLeavesInputs ==
    [][pc = "merge_data" => (mgf_data' = mgf_data /\ mzid_data' = mzid_data)]_vars

\* a header name or a cell with the byte-order mark and the surrounding
\* whitespace taken off
StripCell(t) ==
    LET u == Strip(t)
    IN IF u # <<>> /\ u[1] = "BOM" THEN Strip(Tail(u)) ELSE u

\* the stripped form of a target table
StripTable(file) ==
    [fieldnames |-> [j \in 1..Len(file.fieldnames) |-> StripCell(file.fieldnames[j])],
     rows |-> [i \in 1..Len(file.rows) |->
                 [j \in 1..Len(file.rows[i]) |-> StripCell(file.rows[i][j])]]]

\* C15: a target table loads as its stripped form does: byte-order mark
\* and surrounding whitespace of header names and cells make no difference
\* to whether the table is accepted nor to the targets loaded.
C15_PaddedTableLoads ==
    [][(pc = "main" /\ input.targets_file # <<>>) =>
          LET r == parse_mass_targets(StripTable(input.targets_file[1]))
          IN IF r.ok THEN pc' = "parse_mgf" /\ targets' = r.targets
             ELSE pc' = "exit"]_vars

\* the line just read is a TITLE= line of a block that contains "scan="
TitleLineWithMarker ==
    /\ ReadsLine /\ pc = "parse_mgf" /\ inside_ion_block
    /\ StartsWith(line', "TITLE=") /\ Contains(line', "scan=")

\* the text that follows the marker, up to a &quot;, without quote characters
AfterMarker(s) == Remove(Split(Split(s, "scan=")[2], "&quot;")[1], "\"")

\* the first token of a text delimited by whitespace of any kind, the empty
\* text when there is none
FirstField(t) == IF SplitWs(t) = <<>> THEN <<>> ELSE SplitWs(t)[1]

\* C16: the scan key taken from a title line that contains "scan=" is the
\* first token after the marker delimited by whitespace of any kind, a tab
\* included, with the quote characters removed.
C16_FirstWhitespaceToken ==
    [][TitleLineWithMarker => scan_number' = PyStr(FirstField(AfterMarker(line')))]_vars

\* C17: when a title line contains "scan=" and no key follows the marker,
\* the scan key becomes "Unknown" and the parse goes on.
C17_UnknownSentinel ==
    [][(TitleLineWithMarker /\ FirstField(AfterMarker(line')) = <<>>) =>
          (scan_number' = PyStr(<<"Unknown">>) /\ pc' = "parse_mgf")]_vars

\* the accumulators of parse_mgf (lines 97-99) as one record
Accumulators ==
    [scan_number |-> scan_number, rt |-> rt, precursor_mz |-> precursor_mz,
     intensity |-> intensity, mz_values |-> mz_values,
     summed_ms2_intensity |-> summed_ms2_intensity]

\* the accumulators of a block in which nothing was read yet
FreshAccumulators ==
    [scan_number |-> PyNone, rt |-> PyNone, precursor_mz |-> PyNone,
     intensity |-> PyNone, mz_values |-> <<>>, summed_ms2_intensity |-> PyInt(0)]

\* what one line of a block's body makes of the accumulators a
BodyLine(a, raw) ==
    LET s == Strip(raw)
        fields == SplitWs(AfterLastEq(s))
        parts == SplitWs(s)
    IN IF StartsWith(s, "TITLE=")
       THEN IF Contains(s, "scan=") THEN [a EXCEPT !.scan_number = PyStr(ScanKey(s))] ELSE a
       ELSE IF StartsWith(s, "RTINSECONDS=")
       THEN [a EXCEPT !.rt = IF IsFloat(AfterLastEq(s))
                             THEN PyFloat(ToFloat(AfterLastEq(s))) ELSE PyNone]
       ELSE IF StartsWith(s, "PEPMASS=")
       THEN IF fields # <<>> /\ \A i \in 1..Len(fields) : i <= 2 => IsFloat(fields[i])
            THEN [a EXCEPT !.precursor_mz = PyFloat(ToFloat(fields[1])),
                           !.intensity = IF Len(fields) > 1 THEN PyFloat(ToFloat(fields[2]))
                                         ELSE PyFloat(Dec(0, 0))]
            ELSE [a EXCEPT !.precursor_mz = PyNone, !.intensity = PyFloat(Dec(0, 0))]
       ELSE IF Len(parts) = 2 /\ IsFloat(parts[1]) /\ IsFloat(parts[2])
       THEN [a EXCEPT !.mz_values = Append(@, <<ToFloat(parts[1]), ToFloat(parts[2])>>),
                      !.summed_ms2_intensity = PyAddFloat(@, ToFloat(parts[2]))]
       ELSE a

\* the accumulators after the body lines of a block, read from a fresh start
RECURSIVE BodyOf(_)
BodyOf(lines) ==
    IF lines = <<>> THEN FreshAccumulators
    ELSE BodyLine(BodyOf(SubSeq(lines, 1, Len(lines) - 1)), Last(lines))

\* the record the lines of a block give by themselves
RecordOfBlock(lines, tg) ==
    LET a == BodyOf(lines)
    IN MakeRecord(a.scan_number, a.rt, a.precursor_mz, a.intensity,
                  a.summed_ms2_intensity, TargetHits(a.mz_values, tg))

\* the position of the last BEGIN IONS among the first k lines of the file
LastBegin(k) ==
    CHOOSE b \in 1..k :
        /\ Strip(input.mgf[b]) = <<"BEGIN IONS">>
        /\ \A j \in (b + 1)..k : Strip(input.mgf[j]) # <<"BEGIN IONS">>

\* C18: a BEGIN IONS line resets every accumulator; a line read outside a
\* block changes no accumulator; and a record, when it is emitted, is the
\* record that the lines between its BEGIN IONS and its END IONS give by
\* themselves, whatever was read before that BEGIN IONS.
C18_RecordFromItsBlockOnly ==
    [][(ReadsLine /\ pc = "parse_mgf") =>
          /\ line' = <<"BEGIN IONS">> => Accumulators' = FreshAccumulators
          /\ (~inside_ion_block /\ line' # <<"BEGIN IONS">>) =>
                (Accumulators' = Accumulators /\ precursor_data' = precursor_data)
          /\ Len(precursor_data') > Len(precursor_data) =>
                Last(precursor_data') =
                    RecordOfBlock(SubSeq(input.mgf, LastBegin(nread) + 1, nread), targets)]_vars

\* the file is a block with a title only followed by a block with a
\* precursor line only; the second block ended with no key and no record
C18_Witness ==
    /\ pc = "parse_mgf" /\ nread = 6
    /\ input.mgf = <<(<<"BEGIN IONS">>), <<"TITLE=">> \o Title5, (<<"END IONS">>),
                     (<<"BEGIN IONS">>), (<<"PEPMASS=", "500.25", " ", "1000">>),
                     (<<"END IONS">>)>>
    /\ scan_number = PyNone /\ precursor_mz # PyNone /\ precursor_data = <<>>

\* C19: a BEGIN IONS line read inside a block resets every accumulator,
\* emits nothing and leaves the parser inside a block; an END IONS line
\* read outside a block emits nothing and changes nothing.
C19_RestartAndStrayEnd ==
    [][(ReadsLine /\ pc = "parse_mgf") =>
          /\ (inside_ion_block /\ line' = <<"BEGIN IONS">>) =>
                /\ Accumulators' = FreshAccumulators
                /\ precursor_data' = precursor_data
                /\ inside_ion_block'
          /\ (~inside_ion_block /\ line' = <<"END IONS">>) =>
                /\ Accumulators' = Accumulators
                /\ precursor_data' = precursor_data
                /\ ~inside_ion_block']_vars

\* a block with a title and a precursor line was restarted by a second
\* BEGIN IONS and closed, and a stray END IONS followed: nothing was emitted
C19_Witness ==
    /\ pc = "parse_mgf" /\ nread = 6
    /\ input.mgf = <<(<<"BEGIN IONS">>), <<"TITLE=">> \o Title5,
                     (<<"PEPMASS=", "500.25", " ", "1000">>), (<<"BEGIN IONS">>),
                     (<<"END IONS">>), (<<"END IONS">>)>>
    /\ ~inside_ion_block /\ scan_number = PyNone /\ precursor_data = <<>>

\* the result element yields a scan key (lines 190-195)
YieldsKey(sir) == sir.title # PyNone /\ Contains(sir.title[2], "scan=")

\* the position of the last result element that yields the key of element i
LastWithKeyOf(i) ==
    CHOOSE j \in i..Len(input.mzid) :
        /\ YieldsKey(input.mzid[j])
        /\ ScanKey(input.mzid[j].title[2]) = ScanKey(input.mzid[i].title[2])
        /\ \A k \in (j + 1)..Len(input.mzid) :
              YieldsKey(input.mzid[k]) =>
                  ScanKey(input.mzid[k].title[2]) # ScanKey(input.mzid[i].title[2])

\* C20: when several result elements yield the same scan key, the index
\* holds the value of the last of them in document order, and the merged
\* row of that scan gets "yes" or "no" after that last element, so a later
\* non-passing result overrides an earlier passing one.
C20_LastResultWins ==
    (pc \in {"merge_data", "export_to_csv", "done"}) =>
        \A i \in 1..Len(input.mzid) :
            YieldsKey(input.mzid[i]) =>
                LET key == ScanKey(input.mzid[i].title[2])
                    last == input.mzid[LastWithKeyOf(i)]
                IN /\ key \in DOMAIN mzid_data
                   /\ mzid_data[key] = SomeItemPasses(last)
                   /\ pc = "done" =>
                         \A r \in 1..Len(merged_data) :
                             merged_data[r][<<"scan_number">>] = PyStr(key) =>
                                 merged_data[r][<<"pass_threshold">>] =
                                     IF SomeItemPasses(last)
                                     THEN PyStr(<<"yes">>) ELSE PyStr(<<"no">>)

\* a passing result for scan 5 was followed by a non-passing one for the
\* same scan, and the merged row of scan 5 says "no"
C20_Witness ==
    /\ pc = "done" /\ Len(input.mzid) = 2
    /\ YieldsKey(input.mzid[1]) /\ YieldsKey(input.mzid[2])
    /\ ScanKey(input.mzid[1].title[2]) = <<"5">>
    /\ ScanKey(input.mzid[2].title[2]) = <<"5">>
    /\ SomeItemPasses(input.mzid[1]) /\ ~SomeItemPasses(input.mzid[2])
    /\ merged_data # <<>>
    /\ \E r \in 1..Len(merged_data) :
          /\ merged_data[r][<<"scan_number">>] = PyStr(<<"5">>)
          /\ merged_data[r][<<"pass_threshold">>] = PyStr(<<"no">>)

====
